---- MODULE Spec2Model ----
(***************************************************************************)
(* A state-machine model of the twitter-bot repository: the orchestrator   *)
(* (app.py main), the OAuth token exchange with its browser login          *)
(* (src/auth/oauth_handler.py), the content generator and its persisted    *)
(* store (src/ai/tweet_generator.py), the credential provider              *)
(* (src/utils/helper.py) and the post submitter                            *)
(* (src/twitter/post_tweet.py).                                            *)
(*                                                                         *)
(* Spec    : one run of app.py, from the module-level credential loading   *)
(*           to the end of main, on the store file earlier runs left; the  *)
(*           names the modules import are taken as bound.                  *)
(* SpecImport : the start of the same process, where app.py and            *)
(*           oauth_handler.py bind the names they import from the          *)
(*           repository's modules, statement by statement.                 *)
(* SpecSim : is_similar_to_existing called on a constructed generator      *)
(*           with any store of a few entries and any candidate.            *)
(* SpecGen : two TweetGenerator instances on one store file, each          *)
(*           constructed and then called (generate_tweet) by its caller,   *)
(*           interleaved step by step.                                     *)
(***************************************************************************)
EXTENDS Integers, Sequences, FiniteSets, TLC

VARIABLES
    env,         \* the process environment: variable name -> value or None
    store_file,  \* src/ai/tweets.json: [state, tweets]
    clock,       \* datetime.now(), as a logical clock
    pc,          \* per run: the position of the run in the code
    loc,         \* per run: the local variables of main / fetch_access_token
    driver,      \* per run: the browser session of get_twitter_verifier
    gen,         \* per run: the TweetGenerator instance, generate_tweet's locals
                 \* and counts of what the call did (API calls, checks, rejections)
    net          \* per run: what the run sent to the outside (calls, requests)

vars == <<env, store_file, clock, pc, loc, driver, gen, net>>

\* The processes of the model: runs of app.py, or callers of a generator.
Runs == {"r1", "r2"}

(***************************************************************************)
(* Values                                                                  *)
(***************************************************************************)
\* Python's None, for strings and for optional arguments.
None == "None"

\* The six configuration values the program reads.
EnvVars == {"TWITTER_USERNAME", "TWITTER_PASSWORD", "TWITTER_EMAIL",
            "CONSUMER_KEY", "CONSUMER_SECRET", "GOOGLE_API_KEY"}

\* The variables oauth_handler.py loads at import, in the order it loads them.
OAuthModuleVars == <<"TWITTER_USERNAME", "TWITTER_PASSWORD", "TWITTER_EMAIL",
                     "CONSUMER_KEY", "CONSUMER_SECRET">>

\* The value each variable has when it is configured.
Configured(v) ==
    CASE v = "TWITTER_USERNAME" -> "user"
      [] v = "TWITTER_PASSWORD" -> "password"
      [] v = "TWITTER_EMAIL" -> "email"
      [] v = "CONSUMER_KEY" -> "ck"
      [] v = "CONSUMER_SECRET" -> "cs"
      [] v = "GOOGLE_API_KEY" -> "gk"

FullEnv == [v \in EnvVars |-> Configured(v)]

\* The environments of the model: everything configured, one variable unset,
\* or one variable set to the empty string.
EnvCases ==
    {FullEnv}
    \cup {[FullEnv EXCEPT ![v] = None] : v \in EnvVars}
    \cup {[FullEnv EXCEPT ![v] = ""] : v \in EnvVars}

\* A string is a sequence of chunks; the chunk [s, n] is the first n characters
\* of the string named s. Concatenation is \o, len() is StrLen and the slice
\* text[:k] is Slice.
Chunk(s, n) == [s |-> s, n |-> n]
Str(s, n) == IF n = 0 THEN <<>> ELSE <<Chunk(s, n)>>

RECURSIVE StrLen(_)
StrLen(t) == IF t = <<>> THEN 0 ELSE t[1].n + StrLen(Tail(t))

RECURSIVE Slice(_, _)
Slice(t, k) ==
    IF t = <<>> \/ k <= 0 THEN <<>>
    ELSE IF t[1].n >= k THEN <<Chunk(t[1].s, k)>>
    ELSE <<t[1]>> \o Slice(Tail(t), k - t[1].n)

\* The name of an environment variable, as a string.
NameStr(v) ==
    Str(v, CASE v = "TWITTER_USERNAME" -> 16
             [] v = "TWITTER_PASSWORD" -> 16
             [] v = "TWITTER_EMAIL" -> 13
             [] v = "CONSUMER_KEY" -> 12
             [] v = "CONSUMER_SECRET" -> 15
             [] v = "GOOGLE_API_KEY" -> 14)

\* An exception: its type and its message (str(e)).
Exc(type, msg) == [type |-> type, msg |-> msg]
NoExc == Exc(None, <<>>)

(***************************************************************************)
(* Credential provider (src/utils/helper.py)                               *)
(***************************************************************************)
\* os.getenv(var_name)
getenv(e, var_name) == e[var_name]

\* (mutant) the lookup result is handed on without the None check.
get_env_var_unchecked(e, var_name) ==
    [raised |-> FALSE, value |-> getenv(e, var_name), exc |-> NoExc]

\* get_env_var(var_name): [raised, value, exc].
get_env_var(e, var_name) ==
    LET value == getenv(e, var_name) IN
    IF value = None
    THEN [raised |-> TRUE, value |-> None,
          exc |-> Exc("ValueError",
                      Str("Environment variable ", 21) \o NameStr(var_name)
                          \o Str(" not found.", 11))]
    ELSE [raised |-> FALSE, value |-> value, exc |-> NoExc]

(***************************************************************************)
(* Helpers on the per-run state                                            *)
(***************************************************************************)
\* The run r moves to position p.
Goto(r, p) == pc' = [pc EXCEPT ![r] = p]

\* An exception e leaves the function the run r is in and reaches the handler
\* at position handler (main's except clause, or the caller of the model).
Raise(r, e, handler) ==
    /\ pc' = [pc EXCEPT ![r] = handler]
    /\ loc' = [loc EXCEPT ![r].exc = e]

(***************************************************************************)
(* Import of src/auth/oauth_handler.py: module-level credential loading    *)
(***************************************************************************)
\* The first variable of vs, in order, that get_env_var fails on; None if none.
RECURSIVE FirstMissing(_, _)
FirstMissing(e, vs) ==
    IF vs = <<>> THEN None
    ELSE IF get_env_var(e, Head(vs)).raised THEN Head(vs)
    ELSE FirstMissing(e, Tail(vs))

\* app.py imports oauth_handler, whose module body calls get_env_var five
\* times; a ValueError there is raised outside main's try and ends the process.
ImportOAuthHandler(r) ==
    /\ pc[r] = "import"
    /\ LET missing == FirstMissing(env, OAuthModuleVars) IN
       IF missing # None
       THEN Raise(r, get_env_var(env, missing).exc, "crashed")
       ELSE /\ Goto(r, "main")
            /\ loc' = loc
    /\ UNCHANGED <<env, store_file, clock, driver, gen, net>>

(***************************************************************************)
(* OAuth token exchange (src/auth/oauth_handler.py)                        *)
(***************************************************************************)
\* main: headless = not debug; fetch_access_token(headless=headless) is entered.
MainStart(r) ==
    /\ pc[r] = "main"
    /\ \E debug \in BOOLEAN :
         loc' = [loc EXCEPT ![r].debug = debug, ![r].headless = ~debug]
    /\ Goto(r, "fat_request_token")
    /\ UNCHANGED <<env, store_file, clock, driver, gen, net>>

\* oauth.fetch_request_token(request_token_url), signed with the module's
\* CONSUMER_KEY / CONSUMER_SECRET: the platform answers with a request token,
\* or the call raises.
FetchRequestToken(r, handler) ==
    /\ pc[r] = "fat_request_token"
    /\ net' = [net EXCEPT ![r].request_token_calls = @ + 1]
    /\ \/ /\ loc' = [loc EXCEPT ![r].resource_owner_key = "rt",
                                ![r].resource_owner_secret = "rts"]
          /\ Goto(r, "gtv_setup")
       \/ Raise(r, Exc("TokenRequestDenied", Str("Token request failed", 20)), handler)
    /\ UNCHANGED <<env, store_file, clock, driver, gen>>

\* get_twitter_verifier: driver = setup_selenium(headless=headless), before the
\* try block: a failure to launch leaves get_twitter_verifier as an exception.
SetupSelenium(r, handler) ==
    /\ pc[r] = "gtv_setup"
    /\ \/ /\ driver' = [driver EXCEPT ![r] = [state |-> "open",
                                              headless |-> loc[r].headless]]
          /\ net' = [net EXCEPT ![r].launches = @ + 1]
          /\ Goto(r, "gtv_get")
          /\ loc' = loc
       \/ /\ Raise(r, Exc("WebDriverException", Str("driver setup failed", 19)), handler)
          /\ UNCHANGED <<driver, net>>
    /\ UNCHANGED <<env, store_file, clock, gen>>

\* The steps of the try block of get_twitter_verifier that wait for an element
\* (or load the page) and act on it, with the position each one continues at.
AfterStep(step) ==
    CASE step = "gtv_get" -> "gtv_sign_in"
      [] step = "gtv_sign_in" -> "gtv_username"
      [] step = "gtv_username" -> "gtv_next"
      [] step = "gtv_next" -> "gtv_unusual"
      [] step = "gtv_email" -> "gtv_password"
      [] step = "gtv_password" -> "gtv_login"
      [] step = "gtv_login" -> "gtv_authorize"
      [] step = "gtv_authorize" -> "gtv_code"

BrowserSteps == {"gtv_get", "gtv_sign_in", "gtv_username", "gtv_next",
                 "gtv_email", "gtv_password", "gtv_login", "gtv_authorize"}

\* What the page shows in its <code> element: a verifier code, or nothing.
VerifierCodes == {"1234567", ""}

\* (mutant) the except clause returns without the cleanup of the finally block.
GtvCaughtNoCleanup(r) ==
    /\ loc' = [loc EXCEPT ![r].verifier = None]
    /\ Goto(r, "fat_verifier_check")

\* except Exception as e: ... return None (the finally block runs next).
GtvCaught(r) ==
    /\ loc' = [loc EXCEPT ![r].verifier = None]
    /\ Goto(r, "gtv_finally")

\* One step of the try block: the element appears and is acted on, or the wait
\* times out / the driver call fails and the except clause is entered.
BrowserStep(r) ==
    /\ pc[r] \in BrowserSteps
    /\ \/ /\ Goto(r, AfterStep(pc[r]))
          /\ loc' = loc
       \/ GtvCaught(r)
    /\ UNCHANGED <<env, store_file, clock, driver, gen, net>>

\* if "unusual login activity" in driver.page_source.lower(): the e-mail detour.
UnusualActivityCheck(r) ==
    /\ pc[r] = "gtv_unusual"
    /\ \/ /\ \E unusual \in BOOLEAN :
               Goto(r, IF unusual THEN "gtv_email" ELSE "gtv_password")
          /\ loc' = loc
       \/ GtvCaught(r)
    /\ UNCHANGED <<env, store_file, clock, driver, gen, net>>

\* verifier_code = WebDriverWait(...).until(presence of //code).text; return it.
ReadVerifierCode(r) ==
    /\ pc[r] = "gtv_code"
    /\ \/ /\ \E code \in VerifierCodes : loc' = [loc EXCEPT ![r].verifier = code]
          /\ Goto(r, "gtv_finally")
       \/ GtvCaught(r)
    /\ UNCHANGED <<env, store_file, clock, driver, gen, net>>

\* (mutant) a login that gave no code is tried again with a new session.
GtvFinallyRetry(r) ==
    /\ pc[r] = "gtv_finally"
    /\ driver' = [driver EXCEPT ![r].state = "closed"]
    /\ Goto(r, IF loc[r].verifier \in {None, ""} THEN "gtv_setup" ELSE "fat_verifier_check")
    /\ UNCHANGED <<env, store_file, clock, loc, gen, net>>

\* finally: driver.quit(), which ends the session; then the pending return
\* value reaches the caller.
GtvFinally(r) ==
    /\ pc[r] = "gtv_finally"
    /\ driver' = [driver EXCEPT ![r].state = "closed"]
    /\ Goto(r, "fat_verifier_check")
    /\ UNCHANGED <<env, store_file, clock, loc, gen, net>>

\* (mutant) if verifier is None: an empty code passes the check.
VerifierMissingIsNone(verifier) == verifier = None

\* fetch_access_token: if not verifier: raise ValueError(...)
VerifierMissing(verifier) == verifier = None \/ verifier = ""

VerifierCheck(r, handler) ==
    /\ pc[r] = "fat_verifier_check"
    /\ IF VerifierMissing(loc[r].verifier)
       THEN Raise(r, Exc("ValueError",
                         Str("OAuth verification process failed: Unable to obtain verifier code", 65)),
                  handler)
       ELSE /\ Goto(r, "fat_access_token")
            /\ loc' = loc
    /\ UNCHANGED <<env, store_file, clock, driver, gen, net>>

\* oauth.fetch_access_token(access_token_url) with the request token and the
\* verifier: the platform answers with the access token pair, or the call raises.
FetchAccessToken(r, handler) ==
    /\ pc[r] = "fat_access_token"
    /\ net' = [net EXCEPT ![r].access_token_calls = @ + 1,
                          ![r].access_token_verifier = loc[r].verifier]
    /\ \/ /\ loc' = [loc EXCEPT ![r].access_token = "at",
                                ![r].access_token_secret = "ats"]
          /\ Goto(r, "main_env")
       \/ Raise(r, Exc("TokenRequestDenied", Str("Token request failed", 20)), handler)
    /\ UNCHANGED <<env, store_file, clock, driver, gen>>

(***************************************************************************)
(* Content generator (src/ai/tweet_generator.py)                           *)
(***************************************************************************)
\* Defaults of TweetGenerator.__init__ and the attempt budget of generate_tweet;
\* the similarity threshold 0.9 is kept in hundredths.
max_tweet_length == 280
similarity_threshold == 90
max_attempts == 3

\* A Stored Post Entry.
Entry(text, timestamp, topic, phase) ==
    [text |-> text, timestamp |-> timestamp, topic |-> topic, phase |-> phase]

\* What the generative API returns, after .text.strip(): one text within the
\* length limit, one exactly at it and one beyond it.
ApiTexts == {Str("A", 100), Str("B", 280), Str("C", 281)}

\* The fault of the generative API call, with its message.
ApiErrors == {Exc("ResourceExhausted", Str("quota exceeded", 300))}

\* The sentinel strings generate_tweet returns.
IntroErrorSentinel == Str("Error generating tweet", 22)
ErrorSentinel(e) == Str("Error generating tweet: ", 24) \o e.msg
FailedSentinel == Str("Failed to generate a unique tweet. Please try again.", 52)

\* (mutant) the cut leaves room for one more character.
TruncateShort(t) ==
    IF StrLen(t) > max_tweet_length THEN Slice(t, max_tweet_length - 1) ELSE t

\* if len(t) > self.max_tweet_length: t = t[:self.max_tweet_length]
Truncate(t) == IF StrLen(t) > max_tweet_length THEN Slice(t, max_tweet_length) ELSE t

\* The TF-IDF cosine similarity of two texts (sklearn), in hundredths: 100 for
\* the same wording; the wordings A and B sit exactly at the threshold, A and C
\* just below it, B and C share nothing.
cosine_similarity(a, b) ==
    LET x == IF a = <<>> THEN "" ELSE a[1].s
        y == IF b = <<>> THEN "" ELSE b[1].s
    IN  IF x = y THEN 100
        ELSE IF {x, y} = {"A", "B"} THEN 90
        ELSE IF {x, y} = {"A", "C"} THEN 89
        ELSE 0

\* max(cosine_similarities) if len(cosine_similarities) > 0 else 0
MaxSimilarity(new_tweet, existing_tweets) ==
    LET sims == {cosine_similarity(new_tweet, existing_tweets[i]) :
                    i \in 1..Len(existing_tweets)}
    IN  IF sims = {} THEN 0 ELSE CHOOSE m \in sims : \A x \in sims : x <= m

\* (mutant) a similarity equal to the threshold does not count.
is_similar_to_existing_strict(tweet_storage, new_tweet) ==
    LET existing_tweets == [i \in 1..Len(tweet_storage) |-> tweet_storage[i].text] IN
    IF existing_tweets = <<>> THEN FALSE
    ELSE MaxSimilarity(new_tweet, existing_tweets) > similarity_threshold

\* TweetGenerator.is_similar_to_existing(new_tweet)
is_similar_to_existing(tweet_storage, new_tweet) ==
    LET existing_tweets == [i \in 1..Len(tweet_storage) |-> tweet_storage[i].text] IN
    IF existing_tweets = <<>> THEN FALSE
    ELSE MaxSimilarity(new_tweet, existing_tweets) >= similarity_threshold

\* (mutant) only the newest entry is looked at.
has_intro_newest_only(tweet_storage) ==
    tweet_storage # <<>> /\ tweet_storage[Len(tweet_storage)].topic = "introduction"

\* has_intro = any(tweet.get('topic') == 'introduction' for tweet in self.tweet_storage)
has_intro(tweet_storage) ==
    \E i \in 1..Len(tweet_storage) : tweet_storage[i].topic = "introduction"

\* TweetGenerator.load_tweet_storage: the list in the file, or [] when the
\* file does not exist or holds no valid JSON.
load_tweet_storage(file) ==
    IF file.state = "list" THEN file.tweets ELSE <<>>

\* (mutant) the newest entry is appended to what the file holds.
save_tweet_storage_append(tweet_storage) ==
    [state |-> "list",
     tweets |-> load_tweet_storage(store_file) \o <<tweet_storage[Len(tweet_storage)]>>]

\* TweetGenerator.save_tweet_storage: the file is rewritten with the whole list.
save_tweet_storage(tweet_storage) ==
    [state |-> "list", tweets |-> tweet_storage]

\* A generator that was not constructed yet.
\* What a prompt is built from besides the persona's name and description:
\* the template, the games listed and the example tweets appended.
NoPrompt == [template |-> None, games |-> {}, examples |-> <<>>]

\* Three of the keys of self.game_types; a list of games is named by its key.
game_types == {"indie games", "open world", "farming sim"}

\* games = self.game_types.get(topic, []) if topic else []
games_for(topic) == IF topic # None /\ topic \in game_types THEN {topic} ELSE {}

\* get_phase_examples(phase): the persona's example_interactions without a
\* phase, the examples of hidden_story_arc[phase] with one.
get_phase_examples(phase) ==
    IF phase = None THEN <<"example_interactions">> ELSE <<"hidden_story_arc", phase>>

\* intro_prompt: built from name, description and max_tweet_length only.
intro_prompt == [template |-> "introduction", games |-> {}, examples |-> <<>>]

\* full_prompt
full_prompt(topic, phase) ==
    [template |-> "regular", games |-> games_for(topic),
     examples |-> get_phase_examples(phase)]

\* (mutant) the introduction entry records the arguments of the call.
intro_tweet_entry_with_args(intro_tweet, timestamp, topic, phase) ==
    Entry(intro_tweet, timestamp, topic, phase)

\* tweet_entry of the introduction branch: topic "introduction", phase None.
intro_tweet_entry(intro_tweet, timestamp, topic, phase) ==
    Entry(intro_tweet, timestamp, "introduction", None)

NoGen == [constructed |-> FALSE, tweet_storage |-> <<>>, calls |-> 0, mode |-> None,
          topic |-> None, phase |-> None, attempt |-> 0, api_calls |-> 0,
          rejected |-> 0, before |-> <<>>, ret |-> <<>>, returned |-> FALSE,
          fault |-> NoExc, raw |-> <<>>, generated_tweet |-> <<>>,
          similar |-> FALSE, prompt |-> NoPrompt, checks |-> 0]

\* TweetGenerator.__init__: load_personality, configure_api, load_tweet_storage.
Construct(r, next, handler) ==
    /\ pc[r] = "construct"
    /\ \/ /\ Raise(r, Exc("ValueError", Str("Failed to load personality: ", 28)
                                          \o Str("No such file or directory", 25)),
                   handler)
          /\ gen' = gen
       \/ /\ getenv(env, "GOOGLE_API_KEY") \in {None, ""}
          /\ Raise(r, Exc("ValueError",
                          Str("API key is required. Set GOOGLE_API_KEY in environment variables.", 65)),
                   handler)
          /\ gen' = gen
       \/ /\ getenv(env, "GOOGLE_API_KEY") \notin {None, ""}
          /\ gen' = [gen EXCEPT ![r] = [NoGen EXCEPT
                        !.constructed = TRUE,
                        !.tweet_storage = load_tweet_storage(store_file)]]
          /\ Goto(r, next)
          /\ loc' = loc
    /\ UNCHANGED <<env, store_file, clock, driver, net>>

\* The faults of writing the store file (open(..., 'w') fails; the file is as before).
SaveErrors == {Exc("OSError", Str("Permission denied", 17))}

\* The two branches of generate_tweet: "introduction" when the instance's list
\* holds no introduction entry, "regular" when it does.
SelectMode(tweet_storage, topic, phase) ==
    IF ~has_intro(tweet_storage) THEN "introduction" ELSE "regular"

\* generate_tweet(topic, phase) is entered: has_intro is computed and the
\* branch is taken; the attempt counter of the regular branch starts at 0.
GenerateTweet(r, topic, phase) ==
    /\ pc[r] = "generate"
    /\ gen[r].constructed
    /\ LET mode == SelectMode(gen[r].tweet_storage, topic, phase) IN
       /\ gen' = [gen EXCEPT ![r].calls = @ + 1,
                             ![r].mode = mode, ![r].topic = topic, ![r].phase = phase,
                             ![r].attempt = 0, ![r].api_calls = 0, ![r].rejected = 0,
                             ![r].before = gen[r].tweet_storage,
                             ![r].ret = <<>>, ![r].returned = FALSE,
                             ![r].fault = NoExc, ![r].raw = <<>>,
                             ![r].generated_tweet = <<>>, ![r].checks = 0,
                             ![r].prompt = IF mode = "introduction" THEN intro_prompt
                                           ELSE full_prompt(topic, phase)]
       /\ Goto(r, IF mode = "introduction" THEN "gen_intro_api" ELSE "gen_regular_api")
    /\ UNCHANGED <<env, store_file, clock, loc, driver, net>>

\* generate_tweet returns value to its caller, which continues at next; the
\* arguments of the call end with it.
GenReturn(r, g, value, next) ==
    /\ gen' = [gen EXCEPT ![r] = [g EXCEPT !.ret = value, !.returned = TRUE,
                                          !.topic = None, !.phase = None,
                                          !.prompt = NoPrompt]]
    /\ Goto(r, next)

\* Introduction branch, except Exception as e: return "Error generating tweet"
IntroFault(r, g, e, next) ==
    GenReturn(r, [g EXCEPT !.fault = e], IntroErrorSentinel, next)

\* (mutant) the fault counts as an attempt and the loop goes on.
RegularFaultRetry(r, g, e, next) ==
    /\ gen' = [gen EXCEPT ![r] = [g EXCEPT !.fault = e, !.attempt = @ + 1]]
    /\ pc' = pc

\* Regular branch, except Exception as e: return f"Error generating tweet: {e}"
RegularFault(r, g, e, next) ==
    GenReturn(r, [g EXCEPT !.fault = e], ErrorSentinel(e), next)

\* Introduction branch: the one call of the generative API, the truncation and
\* the append to the instance's list; a fault returns the sentinel.
IntroApi(r, next) ==
    /\ pc[r] = "gen_intro_api"
    /\ LET g == [gen[r] EXCEPT !.api_calls = @ + 1] IN
       \/ \E t \in ApiTexts :
            LET intro_tweet == Truncate(t)
                tweet_entry == intro_tweet_entry(intro_tweet, clock, g.topic, g.phase)
            IN  /\ gen' = [gen EXCEPT ![r] =
                             [g EXCEPT !.raw = t, !.generated_tweet = intro_tweet,
                                       !.tweet_storage = Append(@, tweet_entry)]]
                /\ clock' = clock + 1
                /\ Goto(r, "gen_intro_save")
       \/ /\ \E e \in ApiErrors : IntroFault(r, g, e, next)
          /\ clock' = clock
    /\ UNCHANGED <<env, store_file, loc, driver, net>>

\* self.save_tweet_storage(); return intro_tweet. A fault returns the sentinel.
IntroSave(r, next) ==
    /\ pc[r] = "gen_intro_save"
    /\ \/ /\ store_file' = save_tweet_storage(gen[r].tweet_storage)
          /\ GenReturn(r, gen[r], gen[r].tweet_storage[Len(gen[r].tweet_storage)].text, next)
       \/ /\ \E e \in SaveErrors : IntroFault(r, gen[r], e, next)
          /\ store_file' = store_file
    /\ UNCHANGED <<env, clock, loc, driver, net>>

\* (mutant) while attempt <= max_attempts: one pass too many.
LoopContinuesInclusive(attempt) == attempt <= max_attempts

\* while attempt < max_attempts
LoopContinues(attempt) == attempt < max_attempts

\* Regular branch, one pass of while attempt < max_attempts: the API call, the
\* truncation and the similarity check; an accepted candidate is appended, a
\* similar one is dropped and counts an attempt, a fault returns the sentinel
\* with its text. raw is response.text.strip() of the accepted candidate.
RegularAttempt(r, next) ==
    /\ pc[r] = "gen_regular_api"
    /\ LoopContinues(gen[r].attempt)
    /\ LET g == [gen[r] EXCEPT !.api_calls = @ + 1] IN
       \/ \E t \in ApiTexts :
            LET generated_tweet == Truncate(t)
                tweet_entry == Entry(generated_tweet, clock, g.topic, g.phase)
            IN  IF ~is_similar_to_existing(g.tweet_storage, generated_tweet)
                THEN /\ gen' = [gen EXCEPT ![r] =
                                  [g EXCEPT !.raw = t,
                                            !.generated_tweet = generated_tweet,
                                            !.checks = @ + 1,
                                            !.tweet_storage = Append(@, tweet_entry)]]
                     /\ clock' = clock + 1
                     /\ Goto(r, "gen_regular_save")
                ELSE /\ gen' = [gen EXCEPT ![r] =
                                  [g EXCEPT !.checks = @ + 1,
                                            !.attempt = @ + 1, !.rejected = @ + 1]]
                     /\ clock' = clock
                     /\ pc' = pc
       \/ /\ \E e \in ApiErrors : RegularFault(r, g, e, next)
          /\ clock' = clock
    /\ UNCHANGED <<env, store_file, loc, driver, net>>

\* self.save_tweet_storage(); return generated_tweet. A fault returns the sentinel.
RegularSave(r, next) ==
    /\ pc[r] = "gen_regular_save"
    /\ \/ /\ store_file' = save_tweet_storage(gen[r].tweet_storage)
          /\ GenReturn(r, gen[r], gen[r].tweet_storage[Len(gen[r].tweet_storage)].text, next)
       \/ /\ \E e \in SaveErrors : RegularFault(r, gen[r], e, next)
          /\ store_file' = store_file
    /\ UNCHANGED <<env, clock, loc, driver, net>>

\* The loop ends with the attempt budget used up: the failure sentinel.
RegularExhausted(r, next) ==
    /\ pc[r] = "gen_regular_api"
    /\ ~LoopContinues(gen[r].attempt)
    /\ GenReturn(r, gen[r], FailedSentinel, next)
    /\ UNCHANGED <<env, store_file, clock, loc, driver, net>>

(***************************************************************************)
(* Post submitter (src/twitter/post_tweet.py)                              *)
(***************************************************************************)
\* The status codes the post-creation endpoint answers with in the model.
Statuses == {200, 201, 304, 403, 500}

NoResponse == [returned |-> FALSE, status |-> 0, body |-> ""]

\* response.raise_for_status(): raises HTTPError for 4xx and 5xx only.
raise_for_status(status_code) == 400 <= status_code /\ status_code < 600

\* if response.status_code != 201: log; response.raise_for_status()
\* TRUE when post_tweet leaves by an exception for this status.
PostRaises(status_code) == status_code # 201 /\ raise_for_status(status_code)

\* The request post_tweet signs and sends, from its parameters in their order:
\* OAuth1Session(client_key=consumer_key, client_secret=consumer_secret,
\* resource_owner_key=access_token, resource_owner_secret=access_token_secret).
post_tweet_request(consumer_key, consumer_secret, access_token, access_token_secret, tweet_text) ==
    [client_key |-> consumer_key, client_secret |-> consumer_secret,
     resource_owner_key |-> access_token, resource_owner_secret |-> access_token_secret,
     text |-> tweet_text]

\* post_tweet: the request is sent; the call fails, or the endpoint answers and
\* the status decides between raising and returning response.json().
post_tweet(r, request, next, handler) ==
    /\ net' = [net EXCEPT ![r].posts = Append(@, request)]
    /\ \/ Raise(r, Exc("ConnectionError", Str("connection failed", 17)), handler)
       \/ \E status_code \in Statuses :
            IF PostRaises(status_code)
            THEN /\ pc' = [pc EXCEPT ![r] = handler]
                 /\ loc' = [loc EXCEPT ![r].exc = Exc("HTTPError", Str("http error", 10)),
                                       ![r].status = status_code]
            ELSE /\ pc' = [pc EXCEPT ![r] = next]
                 /\ loc' = [loc EXCEPT ![r].status = status_code,
                                       ![r].response = [returned |-> TRUE,
                                                        status |-> status_code,
                                                        body |-> "json"]]

(***************************************************************************)
(* Orchestrator (app.py main)                                              *)
(***************************************************************************)
\* Two of the topics and two of the phases main draws from with random.choice.
MainTopics == {"open-world RPG", "cozy farming sim"}
MainPhases == {"phase_1", "phase_5"}

\* consumer_key = get_env_var("CONSUMER_KEY"); consumer_secret = get_env_var("CONSUMER_SECRET")
MainLoadCredentials(r) ==
    /\ pc[r] = "main_env"
    /\ LET k == get_env_var(env, "CONSUMER_KEY")
           s == get_env_var(env, "CONSUMER_SECRET")
       IN  IF k.raised THEN Raise(r, k.exc, "main_except")
           ELSE IF s.raised THEN Raise(r, s.exc, "main_except")
           ELSE /\ loc' = [loc EXCEPT ![r].consumer_key = k.value,
                                      ![r].consumer_secret = s.value]
                /\ Goto(r, "construct")
    /\ UNCHANGED <<env, store_file, clock, driver, gen, net>>

\* tweet_text = tweet_generator.generate_tweet(phase=tweet_phase, topic=tweet_topic)
MainGenerate(r) ==
    \E topic \in MainTopics, phase \in MainPhases : GenerateTweet(r, topic, phase)

\* response = post_tweet(access_token, access_token_secret, consumer_key,
\*                       consumer_secret, tweet_text): main's arguments, in the
\* order main writes them, bound to post_tweet's parameters by position.
MainPostRequest(l, tweet_text) ==
    post_tweet_request(l.access_token, l.access_token_secret,
                       l.consumer_key, l.consumer_secret, tweet_text)

MainPost(r) ==
    /\ pc[r] = "main_post"
    /\ post_tweet(r, MainPostRequest(loc[r], gen[r].ret), "done", "main_except")
    /\ UNCHANGED <<env, store_file, clock, driver, gen>>

\* (mutant) the handler starts main over after a failure.
MainExceptRetry(r) ==
    /\ pc[r] = "main_except"
    /\ Goto(r, "main")
    /\ loc' = [loc EXCEPT ![r].caught = TRUE]
    /\ UNCHANGED <<env, store_file, clock, driver, gen, net>>

\* (mutant) the handler takes the entry of this run out of the store again.
MainExceptRollback(r) ==
    /\ pc[r] = "main_except"
    /\ Goto(r, "done")
    /\ loc' = [loc EXCEPT ![r].caught = TRUE]
    /\ store_file' = [store_file EXCEPT !.tweets = gen[r].before]
    /\ UNCHANGED <<env, clock, driver, gen, net>>

\* except Exception as e: logger.error(...); main returns.
MainExcept(r) ==
    /\ pc[r] = "main_except"
    /\ Goto(r, "done")
    /\ loc' = [loc EXCEPT ![r].caught = TRUE]
    /\ UNCHANGED <<env, store_file, clock, driver, gen, net>>

NoLoc == [debug |-> FALSE, headless |-> TRUE,
          resource_owner_key |-> None, resource_owner_secret |-> None,
          verifier |-> None, access_token |-> None, access_token_secret |-> None,
          consumer_key |-> None, consumer_secret |-> None,
          status |-> 0, response |-> NoResponse, exc |-> NoExc, caught |-> FALSE]

NoDriver == [state |-> "none", headless |-> TRUE]

NoNet == [request_token_calls |-> 0, launches |-> 0, access_token_calls |-> 0,
          access_token_verifier |-> None, posts |-> <<>>]

\* The store file a run can find: none, one that holds no valid JSON, or the
\* list earlier runs left (an introduction entry, then regular entries).
AbsentFile == [state |-> "absent", tweets |-> <<>>]
InvalidFile == [state |-> "invalid", tweets |-> <<>>]
IntroEntry0 == Entry(Str("A", 100), 0, "introduction", None)
RegularEntry1 == Entry(Str("B", 280), 1, "open-world RPG", "phase_1")
InitialFiles ==
    {AbsentFile, InvalidFile,
     [state |-> "list", tweets |-> <<IntroEntry0>>],
     [state |-> "list", tweets |-> <<IntroEntry0, RegularEntry1>>]}

\* The run of app.py that Spec follows.
MainRun == "r1"

\* One run of app.py is about to import its modules; the store file is as
\* earlier runs left it.
Init ==
    /\ env \in EnvCases
    /\ store_file \in InitialFiles
    /\ clock = Len(store_file.tweets)
    /\ pc = [r \in Runs |-> IF r = MainRun THEN "import" ELSE "off"]
    /\ loc = [r \in Runs |-> NoLoc]
    /\ driver = [r \in Runs |-> NoDriver]
    /\ gen = [r \in Runs |-> NoGen]
    /\ net = [r \in Runs |-> NoNet]

Next ==
    \E r \in {MainRun} :
        \/ ImportOAuthHandler(r)
        \/ MainStart(r)
        \/ FetchRequestToken(r, "main_except")
        \/ SetupSelenium(r, "main_except")
        \/ BrowserStep(r)
        \/ UnusualActivityCheck(r)
        \/ ReadVerifierCode(r)
        \/ GtvFinally(r)
        \/ VerifierCheck(r, "main_except")
        \/ FetchAccessToken(r, "main_except")
        \/ MainLoadCredentials(r)
        \/ Construct(r, "generate", "main_except")
        \/ MainGenerate(r)
        \/ IntroApi(r, "main_post")
        \/ IntroSave(r, "main_post")
        \/ RegularAttempt(r, "main_post")
        \/ RegularSave(r, "main_post")
        \/ RegularExhausted(r, "main_post")
        \/ MainPost(r)
        \/ MainExcept(r)

Spec == Init /\ [][Next]_vars

(***************************************************************************)
(* Two generator instances on one store file, driven by a caller           *)
(***************************************************************************)
\* How many times the caller calls generate_tweet on one instance.
MaxCalls == 2

\* The (topic, phase) arguments of the caller: none given, or a key of
\* game_types with a phase of the persona's story arc.
CallerArgs == {<<None, None>>, <<"indie games", "phase_1">>}

InitGen ==
    /\ env = FullEnv
    /\ store_file \in InitialFiles
    /\ clock = Len(store_file.tweets)
    /\ pc = [r \in Runs |-> "construct"]
    /\ loc = [r \in Runs |-> NoLoc]
    /\ driver = [r \in Runs |-> NoDriver]
    /\ gen = [r \in Runs |-> NoGen]
    /\ net = [r \in Runs |-> NoNet]

\* The caller calls generate_tweet(topic, phase) on a constructed instance.
CallerGenerate(r) ==
    /\ gen[r].calls < MaxCalls
    /\ \E args \in CallerArgs : GenerateTweet(r, args[1], args[2])

NextGen ==
    \E r \in Runs :
        \/ Construct(r, "generate", "failed")
        \/ CallerGenerate(r)
        \/ IntroApi(r, "generate")
        \/ IntroSave(r, "generate")
        \/ RegularAttempt(r, "generate")
        \/ RegularSave(r, "generate")
        \/ RegularExhausted(r, "generate")

SpecGen == InitGen /\ [][NextGen]_vars

(***************************************************************************)
(* Module loading (app.py 13-17, oauth_handler.py 24-31)                   *)
(***************************************************************************)
\* The names each module of the repository defines at its top level.
helper_names == {"get_env_var"}
logger_names == {"Logger"}
post_tweet_names == {"post_tweet"}
selenium_setup_names == {"setup_selenium_driver"}

\* from <module> import <name>, at position at: the name is bound when the
\* module defines it, and ImportError ends the process otherwise (the imports
\* are outside every try block).
ImportName(r, at, names, name, next) ==
    /\ pc[r] = at
    /\ IF name \in names
       THEN /\ Goto(r, next)
            /\ loc' = loc
       ELSE Raise(r, Exc("ImportError", Str("cannot import name", 18)), "crashed")
    /\ UNCHANGED <<env, store_file, clock, driver, gen, net>>

\* python app.py starts: nothing is imported yet.
InitImport ==
    /\ env \in EnvCases
    /\ store_file \in InitialFiles
    /\ clock = Len(store_file.tweets)
    /\ pc = [r \in Runs |-> IF r = MainRun THEN "app_13" ELSE "off"]
    /\ loc = [r \in Runs |-> NoLoc]
    /\ driver = [r \in Runs |-> NoDriver]
    /\ gen = [r \in Runs |-> NoGen]
    /\ net = [r \in Runs |-> NoNet]

\* app.py 13-16, and inside the import of line 16 oauth_handler.py 31, the
\* first import of the chain that fails; "import" is the position of the
\* module-level credential loading that follows line 31.
NextImport ==
    \E r \in {MainRun} :
        \/ ImportName(r, "app_13", helper_names, "get_env_var", "app_14")
        \/ ImportName(r, "app_14", logger_names, "Logger", "app_15")
        \/ ImportName(r, "app_15", post_tweet_names, "post_tweet", "oauth_31")
        \/ ImportName(r, "oauth_31", selenium_setup_names, "setup_selenium", "import")

SpecImport == InitImport /\ [][NextImport]_vars

(***************************************************************************)
(* The similarity check on its own (tweet_generator.py 133-160)            *)
(***************************************************************************)
\* The longest store the check is called on.
MaxStore == 3

\* The texts a store can hold: API texts after the truncation.
StoredTexts == {Truncate(t) : t \in ApiTexts}

\* The stores of at most MaxStore entries.
SimStores ==
    UNION {{[i \in 1..n |-> Entry(f[i], i - 1, None, None)] : f \in [1..n -> StoredTexts]} :
              n \in 0..MaxStore}

\* A constructed generator with any store, about to be asked about a candidate.
InitSim ==
    /\ env = FullEnv
    /\ store_file = AbsentFile
    /\ clock = 0
    /\ pc = [r \in Runs |-> IF r = MainRun THEN "sim_call" ELSE "off"]
    /\ loc = [r \in Runs |-> NoLoc]
    /\ driver = [r \in Runs |-> NoDriver]
    /\ \E tweet_storage \in SimStores :
          gen = [r \in Runs |-> IF r = MainRun
                                THEN [NoGen EXCEPT !.constructed = TRUE,
                                                   !.tweet_storage = tweet_storage]
                                ELSE NoGen]
    /\ net = [r \in Runs |-> NoNet]

\* self.is_similar_to_existing(new_tweet) for a candidate text.
CallIsSimilar(r) ==
    /\ pc[r] = "sim_call"
    /\ \E t \in ApiTexts :
          gen' = [gen EXCEPT ![r].generated_tweet = Truncate(t),
                             ![r].similar = is_similar_to_existing(gen[r].tweet_storage,
                                                                   Truncate(t))]
    /\ Goto(r, "sim_done")
    /\ UNCHANGED <<env, store_file, clock, loc, driver, net>>

NextSim == \E r \in {MainRun} : CallIsSimilar(r)

SpecSim == InitSim /\ [][NextSim]_vars

(***************************************************************************)
(* Properties                                                              *)
(***************************************************************************)
\* A string the caller can recognise as one of generate_tweet's sentinels.
IsSentinel(t) ==
    \/ t = IntroErrorSentinel
    \/ t = FailedSentinel
    \/ \E e \in ApiErrors \cup SaveErrors : t = ErrorSentinel(e)

\* The number of entries of a list whose topic is "introduction".
CountIntro(tweets) == Cardinality({i \in 1..Len(tweets) : tweets[i].topic = "introduction"})

\* a is a subsequence of b: every entry of a is in b, unchanged, in the same order.
RECURSIVE IsSubseq(_, _)
IsSubseq(a, b) ==
    IF a = <<>> THEN TRUE
    ELSE IF b = <<>> THEN FALSE
    ELSE IF a[1] = b[1] THEN IsSubseq(Tail(a), Tail(b))
    ELSE IsSubseq(a, Tail(b))

\* C1: post_tweet returns the decoded body if and only if the endpoint
\* answered 201; for every other status it raises and returns nothing.
C1_ReturnsIff201 ==
    \A r \in Runs :
        loc[r].status # 0 => (loc[r].response.returned <=> loc[r].status = 201)

\* C2: in a run of main, if token exchange, credential loading, generator
\* construction or content generation failed (generation: an API fault or the
\* uniqueness attempts used up), the post-creation endpoint is never called.
StageRaised(r) ==
    loc[r].exc.type \in {"ValueError", "TokenRequestDenied", "WebDriverException"}
GenerationFailed(r) == gen[r].returned /\ IsSentinel(gen[r].ret)

C2_NoPostAfterFailedStage ==
    \A r \in Runs : (StageRaised(r) \/ GenerationFailed(r)) => net[r].posts = <<>>

\* C3: the post request of main is signed with the consumer key and secret of
\* the environment as client key and secret, and with the access token and
\* secret of fetch_access_token as resource-owner key and secret.
C3_CredentialsInOwnRoles ==
    \A r \in Runs : \A i \in 1..Len(net[r].posts) :
        LET q == net[r].posts[i] IN
        /\ q.client_key = getenv(env, "CONSUMER_KEY")
        /\ q.client_secret = getenv(env, "CONSUMER_SECRET")
        /\ q.resource_owner_key = loc[r].access_token
        /\ q.resource_owner_secret = loc[r].access_token_secret

\* C4: when get_twitter_verifier has returned without a code, fetch_access_token
\* fails with the authentication error (ValueError) and the access-token
\* endpoint is never called in that run.
NoCode(verifier) == verifier \in {None, ""}
AuthError ==
    Exc("ValueError", Str("OAuth verification process failed: Unable to obtain verifier code", 65))

C4_NoCodeNoAccessTokenCall ==
    \A r \in Runs :
        (driver[r].state = "closed" /\ NoCode(loc[r].verifier)) =>
            /\ net[r].access_token_calls = 0
            /\ pc[r] \in {"fat_verifier_check", "main_except", "done"}
            /\ pc[r] # "fat_verifier_check" => loc[r].exc = AuthError

C4_Witness ==
    \E r \in Runs :
        /\ pc[r] = "done"
        /\ driver[r].state = "closed"
        /\ loc[r].verifier = ""
        /\ loc[r].exc = AuthError
        /\ net[r].request_token_calls = 1

\* C5: in regular mode, when every candidate the API returned was rejected as
\* similar, generate_tweet has called the API exactly 3 times when it returns,
\* and it returns the failure sentinel; it never calls the API a fourth time.
C5_ThreeAttemptsThenSentinel ==
    \A r \in Runs :
        gen[r].mode = "regular" =>
            /\ gen[r].api_calls <= 3
            /\ (gen[r].returned /\ gen[r].rejected = gen[r].api_calls) =>
                   (gen[r].api_calls = 3 /\ gen[r].ret = FailedSentinel)
            /\ (gen[r].returned /\ gen[r].ret = FailedSentinel) =>
                   (gen[r].api_calls = 3 /\ gen[r].rejected = 3)

C5_Witness ==
    \E r \in Runs :
        /\ gen[r].mode = "regular"
        /\ gen[r].returned
        /\ gen[r].rejected = 3
        /\ gen[r].api_calls = 3
        /\ gen[r].ret = FailedSentinel
        /\ gen[r].tweet_storage = gen[r].before

\* C6: once the list of a generator holds an entry with topic "introduction",
\* every generate_tweet call entered on that generator takes the regular
\* branch, whatever topic and phase are passed (none included).
HoldsIntroduction(tweets) == CountIntro(tweets) >= 1

C6_RegularOnceIntroduced ==
    [][\A r \in Runs :
         (HoldsIntroduction(gen[r].tweet_storage) /\ gen'[r].calls = gen[r].calls + 1)
             => gen'[r].mode = "regular"]_vars

C6_Witness ==
    \E r \in Runs :
        /\ gen[r].calls = 2
        /\ gen[r].mode = "regular"
        /\ gen[r].topic = None /\ gen[r].phase = None
        /\ Len(gen[r].before) = 1
        /\ HoldsIntroduction(gen[r].before)
        /\ pc[r] = "gen_regular_api"

\* C7 as stated: with two runs on one store that held no introduction entry,
\* when both observed "no introduction yet" and both completed introduction
\* mode, the persisted store holds two entries with topic "introduction".
RanIntroduction(r) ==
    gen[r].mode = "introduction" /\ gen[r].returned /\ ~IsSentinel(gen[r].ret)

C8_AppendOnly ==
    [][IsSubseq(store_file.tweets, store_file'.tweets)]_vars

\* C9: a browser session opened by get_twitter_verifier is open only while
\* the run is inside get_twitter_verifier: it is closed on every path out.
InsideGetTwitterVerifier ==
    BrowserSteps \cup {"gtv_unusual", "gtv_code", "gtv_finally"}

C9_SessionClosedOnExit ==
    \A r \in Runs : driver[r].state = "open" => pc[r] \in InsideGetTwitterVerifier

C9_Witness ==
    \E r \in Runs :
        /\ net[r].launches = 1
        /\ driver[r].state = "closed"
        /\ loc[r].verifier = None
        /\ pc[r] = "fat_verifier_check"

\* C10: get_twitter_verifier never raises: whatever fails, from launching the
\* driver session on, no exception leaves it (it returns None instead).
C10_NeverRaises ==
    \A r \in Runs : loc[r].exc.type # "WebDriverException"

\* C11: in regular mode, when the generative-API call raises on attempt k
\* (k = 1, 2, 3), generate_tweet returns at once, without raising and without
\* another API call, the sentinel "Error generating tweet: " followed by the
\* exception text.
C11_ApiFaultReturnsSentinel ==
    \A r \in Runs :
        (gen[r].mode = "regular" /\ gen[r].fault \in ApiErrors) =>
            /\ gen[r].returned
            /\ pc[r] \notin {"gen_regular_api", "gen_regular_save", "failed", "main_except"}
            /\ gen[r].ret = Str("Error generating tweet: ", 24) \o gen[r].fault.msg
            /\ gen[r].api_calls = gen[r].rejected + 1
            /\ gen[r].api_calls \in 1..3
            /\ gen[r].tweet_storage = gen[r].before

C11_Witness ==
    \E r \in Runs :
        /\ gen[r].mode = "regular"
        /\ gen[r].fault \in ApiErrors
        /\ gen[r].returned
        /\ gen[r].api_calls = 2
        /\ gen[r].rejected = 1
        /\ StrLen(gen[r].ret) = 324

\* The stage of main a position belongs to: 1 token exchange, 2 consumer
\* credential loading, 3 generator construction, 4 content generation, 5 post
\* submission; 0 before main, 6 after the last stage or in the handler.
Stage(p) ==
    IF p \in {"import", "off"} THEN 0
    ELSE IF p = "main_env" THEN 2
    ELSE IF p = "construct" THEN 3
    ELSE IF p \in {"generate", "gen_intro_api", "gen_intro_save",
                   "gen_regular_api", "gen_regular_save"} THEN 4
    ELSE IF p = "main_post" THEN 5
    ELSE IF p \in {"main_except", "done", "crashed", "failed"} THEN 6
    ELSE 1

StageStart(i) ==
    <<"main", "main_env", "construct", "generate", "main_post">>[i]

\* What stage i leaves behind when it finished without raising.
StageFinished(r, i) ==
    /\ loc'[r].exc = NoExc
    /\ i = 1 => loc'[r].access_token # None /\ net'[r].access_token_calls = 1
    /\ i = 2 => loc'[r].consumer_key # None /\ loc'[r].consumer_secret # None
    /\ i = 3 => gen'[r].constructed
    /\ i = 4 => gen'[r].returned /\ gen'[r].calls = 1

\* C12: in a run of main the stages occur in the order token exchange,
\* credential loading, generator construction, content generation, post
\* submission; a run never goes back to a stage, enters a stage only at its
\* start and only from the stage before it, and only when that stage finished
\* without raising; each stage therefore runs at most once.
C12_StagesInOrderOnce ==
    [][\A r \in Runs :
        LET a == Stage(pc[r])
            b == Stage(pc'[r])
        IN  /\ b >= a
            /\ (b # a /\ b \in 1..5) =>
                  /\ b = a + 1
                  /\ pc'[r] = StageStart(b)
                  /\ a >= 1 => StageFinished(r, a)
            /\ net'[r].request_token_calls <= 1
            /\ gen'[r].calls <= 1
            /\ Len(net'[r].posts) <= 1]_vars

C12_Witness ==
    \E r \in Runs :
        /\ pc[r] = "done"
        /\ loc[r].response.returned
        /\ net[r].request_token_calls = 1
        /\ loc[r].consumer_key # None
        /\ gen[r].constructed
        /\ gen[r].calls = 1
        /\ Len(net[r].posts) = 1

\* The post submission of run r failed: post_tweet raised into main's handler.
PostFailed(r) ==
    /\ pc[r] \in {"main_except", "done"}
    /\ Len(net[r].posts) = 1
    /\ loc[r].exc # NoExc

\* C13: when the post submission that follows generate_tweet in the same run
\* fails, the entry generate_tweet persisted is still in the persisted store,
\* unchanged, before and after main's handler ran: the store is the list the
\* generator loaded followed by that entry.
C13_EntrySurvivesFailedPost ==
    \A r \in Runs :
        (PostFailed(r) /\ ~IsSentinel(gen[r].ret)) =>
            /\ Len(store_file.tweets) = Len(gen[r].before) + 1
            /\ SubSeq(store_file.tweets, 1, Len(gen[r].before)) = gen[r].before
            /\ store_file.tweets[Len(store_file.tweets)].text = gen[r].ret
            /\ store_file.state = "list"

C13_Witness ==
    \E r \in Runs :
        /\ PostFailed(r)
        /\ loc[r].caught
        /\ loc[r].status = 403
        /\ ~IsSentinel(gen[r].ret)
        /\ store_file.tweets[Len(store_file.tweets)].text = gen[r].ret

\* The text c is a prefix of the text t, character by character.
RECURSIVE IsTextPrefix(_, _)
IsTextPrefix(c, t) ==
    IF c = <<>> THEN TRUE
    ELSE IF t = <<>> THEN FALSE
    ELSE /\ c[1].s = t[1].s
         /\ IF c[1].n = t[1].n THEN IsTextPrefix(Tail(c), Tail(t))
            ELSE c[1].n < t[1].n /\ Len(c) = 1

\* C14: in introduction mode and in regular mode, the text generate_tweet goes
\* on with is the API text cut to exactly its first 280 characters when that
\* text is longer than 280 characters and the API text itself otherwise; this
\* is the text that passed the comparison, that the new entry holds and that
\* is returned.
C14_CutTo280BeforeUse ==
    \A r \in Runs :
        gen[r].raw # <<>> =>
            LET t == gen[r].raw
                c == gen[r].generated_tweet
                tweets == gen[r].tweet_storage
            IN  /\ StrLen(t) > 280 => StrLen(c) = 280 /\ IsTextPrefix(c, t)
                /\ StrLen(t) <= 280 => c = t
                /\ tweets = Append(gen[r].before, tweets[Len(tweets)])
                /\ tweets[Len(tweets)].text = c
                /\ gen[r].mode = "regular" =>
                      \A i \in 1..Len(gen[r].before) :
                          cosine_similarity(c, gen[r].before[i].text) < 90
                /\ (gen[r].returned /\ gen[r].fault = NoExc) => gen[r].ret = c

C14_Witness ==
    /\ gen["r1"].mode = "regular"
    /\ gen["r1"].raw = Str("C", 281)
    /\ gen["r1"].returned
    /\ StrLen(gen["r1"].ret) = 280
    /\ gen["r2"].mode = "introduction"
    /\ gen["r2"].raw = Str("C", 281)
    /\ gen["r2"].returned
    /\ StrLen(gen["r2"].ret) = 280

\* The variables the token-exchange module asks get_env_var for.
RequestedVars == {OAuthModuleVars[i] : i \in 1..Len(OAuthModuleVars)}

\* C15: get_env_var(name) returns the configured value of a variable that is
\* set (an empty value too) and raises ValueError "Environment variable <name>
\* not found." for the one that is not set; no caller goes on with a missing
\* value.
C15_ValueOrErrorNamingVariable ==
    \A r \in Runs :
        /\ pc[r] = "crashed" =>
              \E v \in RequestedVars :
                  /\ env[v] = None
                  /\ \A w \in RequestedVars : env[w] = None => w = v
                  /\ loc[r].exc.type = "ValueError"
                  /\ loc[r].exc.msg = Str("Environment variable ", 21) \o Str(v, StrLen(NameStr(v)))
                                          \o Str(" not found.", 11)
        /\ pc[r] \notin {"import", "off", "crashed"} =>
              \A v \in RequestedVars : env[v] # None
        /\ Stage(pc[r]) \in 3..5 =>
              /\ loc[r].consumer_key = env["CONSUMER_KEY"]
              /\ loc[r].consumer_secret = env["CONSUMER_SECRET"]
              /\ loc[r].consumer_key # None /\ loc[r].consumer_secret # None

C15_Witness ==
    \E r \in Runs :
        /\ pc[r] = "crashed"
        /\ env["TWITTER_EMAIL"] = None
        /\ loc[r].exc.msg = <<Chunk("Environment variable ", 21), Chunk("TWITTER_EMAIL", 13),
                              Chunk(" not found.", 11)>>

\* In Spec the browser session is opened with the headless value main chose.
HeadlessReachesDriver ==
    \A r \in Runs :
        driver[r].state # "none" =>
            /\ loc[r].headless = ~loc[r].debug
            /\ driver[r].headless = loc[r].headless

\* C16: the setup function the token exchange names to open its browser
\* session is the setup function of the Browser Automation Driver, so the
\* process gets past the import that binds it and the headless value main
\* chooses can reach it.
C16_SetupFunctionIsDriverSetup ==
    \A r \in Runs :
        /\ loc[r].exc.type # "ImportError"
        /\ pc[r] # "crashed"

\* C17: is_similar_to_existing answers True exactly when the store is not
\* empty and the largest similarity between the candidate and a stored text is
\* at least the threshold 0.9 (equal counts); on an empty store it answers
\* False for every candidate.
C17_SimilarIffMaxAtLeastThreshold ==
    \A r \in Runs :
        pc[r] = "sim_done" =>
            LET tweets == gen[r].tweet_storage
                sim(i) == cosine_similarity(gen[r].generated_tweet, tweets[i].text)
            IN  /\ gen[r].similar <=>
                      /\ tweets # <<>>
                      /\ \E i \in 1..Len(tweets) :
                            /\ \A j \in 1..Len(tweets) : sim(j) <= sim(i)
                            /\ sim(i) >= 90
                /\ tweets = <<>> => ~gen[r].similar

C17_Witness ==
    \E r \in Runs :
        /\ pc[r] = "sim_done"
        /\ gen[r].similar
        /\ Len(gen[r].tweet_storage) = 2
        /\ \A i \in 1..2 :
              cosine_similarity(gen[r].generated_tweet, gen[r].tweet_storage[i].text) \in {89, 90}

\* C18: generate_tweet changes the store exactly when it returns generated
\* text: then the in-memory list and the persisted list are the list before
\* the call followed by one entry whose text is the returned text; when it
\* returns a failure sentinel both are the list before the call.
C18_StoreChangesIffTextReturned ==
    \A r \in Runs :
        gen[r].returned =>
            IF IsSentinel(gen[r].ret)
            THEN /\ gen[r].tweet_storage = gen[r].before
                 /\ store_file.tweets = gen[r].before
            ELSE /\ Len(gen[r].tweet_storage) = Len(gen[r].before) + 1
                 /\ SubSeq(gen[r].tweet_storage, 1, Len(gen[r].before)) = gen[r].before
                 /\ gen[r].tweet_storage[Len(gen[r].tweet_storage)].text = gen[r].ret
                 /\ store_file.tweets = gen[r].tweet_storage

\* C19: when the list holds no introduction entry, generate_tweet sends the
\* introduction prompt, which does not depend on topic or phase, calls the
\* generative API exactly once, makes no similarity check and no retry, and on
\* success appends one entry with topic "introduction", phase None and the
\* returned text.
C19_IntroductionOneCallNoCheck ==
    \A r \in Runs :
        gen[r].mode = "introduction" =>
            /\ pc[r] \notin {"gen_regular_api", "gen_regular_save"}
            /\ gen[r].checks = 0 /\ gen[r].attempt = 0 /\ gen[r].rejected = 0
            /\ gen[r].api_calls = IF pc[r] = "gen_intro_api" THEN 0 ELSE 1
            /\ ~gen[r].returned =>
                  gen[r].prompt = [template |-> "introduction", games |-> {}, examples |-> <<>>]
            /\ (pc[r] = "gen_intro_save" \/ (gen[r].returned /\ gen[r].fault = NoExc)) =>
                  LET tweets == gen[r].tweet_storage
                      e == tweets[Len(tweets)]
                  IN  /\ tweets = Append(gen[r].before, e)
                      /\ e.topic = "introduction"
                      /\ e.phase = None
                      /\ e.text = gen[r].generated_tweet
                      /\ gen[r].returned => e.text = gen[r].ret
            /\ gen[r].fault \in ApiErrors => gen[r].tweet_storage = gen[r].before

C19_Witness ==
    /\ gen["r1"].mode = "introduction"
    /\ gen["r1"].returned
    /\ gen["r1"].fault = NoExc
    /\ gen["r1"].api_calls = 1
    /\ gen["r1"].tweet_storage[Len(gen["r1"].tweet_storage)].text = gen["r1"].ret
    /\ gen["r2"].mode = "introduction"
    /\ pc["r2"] = "gen_intro_save"
    /\ gen["r2"].topic = "indie games"
    /\ gen["r2"].phase = "phase_1"

\* The request-token call of run r was made and failed.
RequestTokenFailed(r) ==
    net[r].request_token_calls = 1 /\ loc[r].resource_owner_key = None

\* C20: in a run, the request-token call, the browser login and the
\* access-token call each happen at most once and in that order; after a
\* failed request-token call the run is in the exception path with no browser
\* session launched; access tokens are held only after the request token was
\* granted, the login gave a code with its session closed, and the
\* access-token call was made with that code.
C20_LinearHandshake ==
    \A r \in Runs :
        /\ net[r].request_token_calls <= 1
        /\ net[r].launches <= 1
        /\ net[r].access_token_calls <= 1
        /\ net[r].launches = 1 =>
              net[r].request_token_calls = 1 /\ loc[r].resource_owner_key # None
        /\ net[r].access_token_calls = 1 =>
              /\ net[r].launches = 1
              /\ driver[r].state = "closed"
              /\ loc[r].verifier \notin {None, ""}
              /\ net[r].access_token_verifier = loc[r].verifier
        /\ RequestTokenFailed(r) =>
              /\ net[r].launches = 0
              /\ driver[r].state = "none"
              /\ loc[r].exc.type = "TokenRequestDenied"
              /\ pc[r] \in {"main_except", "done"}
        /\ loc[r].access_token # None =>
              /\ net[r].request_token_calls = 1
              /\ net[r].launches = 1
              /\ net[r].access_token_calls = 1
              /\ Stage(pc[r]) >= 2

C20_Witness ==
    \E r \in Runs :
        /\ loc[r].access_token # None
        /\ net[r].request_token_calls = 1
        /\ net[r].launches = 1
        /\ net[r].access_token_calls = 1
        /\ driver[r].state = "closed"
        /\ pc[r] = "main_env"

\* C21: every string generate_tweet returns, generated text or failure
\* sentinel, has at most 280 characters, and so has every text main hands to
\* post_tweet.
C21_ReturnedTextWithinLimit ==
    \A r \in Runs :
        /\ gen[r].returned => StrLen(gen[r].ret) <= 280
        /\ \A i \in 1..Len(net[r].posts) : StrLen(net[r].posts[i].text) <= 280

\* A configuration value the program needs is not set.
ConfigurationAbsent == \E v \in EnvVars : env[v] = None

\* C22: in a run in which one of the six configuration values is not set, no
\* request-token call is made and no browser session is launched: the run
\* fails before both.
C22_AbsentValueFailsBeforeHandshake ==
    \A r \in Runs :
        ConfigurationAbsent =>
            /\ net[r].request_token_calls = 0
            /\ net[r].launches = 0
            /\ driver[r].state = "none"

====
